---- MODULE Spec2Model ----
(***************************************************************************)
(* Model of eslint-plugin-jsonv (src/index.mjs): the ESLint 9 language     *)
(* object jsonvLanguage, i.e. parse(file, context) around the external     *)
(* parser parseWithOptions, and the source code object returned by         *)
(* createSourceCode (lines, getLoc, getLines, traverse).                   *)
(*                                                                         *)
(* JavaScript values are tagged records: [t |-> "undefined"],              *)
(* [t |-> "null"], [t |-> "number", n |-> 3], [t |-> "boolean", b |-> ..], *)
(* [t |-> "string", s |-> ..], and objects by their fields.  A text is a   *)
(* sequence of characters.                                                 *)
(***************************************************************************)
EXTENDS Integers, Sequences, FiniteSets, TLC

VARIABLES
    file,         \* the file object handed to the last parse / createSourceCode call
    context,      \* the context handed to the last parse call
    parserCalls,  \* the calls of parseWithOptions made by the last parse call
    parseResult,  \* what the last parse call did: returned a result or raised
    oracle,       \* the external parser's outcomes observed so far (SpecDet)
    history,      \* the results parse returned so far, by input (SpecDet)
    sourceCode,   \* the object the last createSourceCode call returned
    lastCall,     \* the last method called on the source code object, with its result
    iterators     \* the iterators returned by traverse(), with what was read from each

vars == <<file, context, parserCalls, parseResult, oracle, history,
          sourceCode, lastCall, iterators>>

parseVars == <<file, context, parserCalls, parseResult>>
detVars == <<oracle, history>>
sourceVars == <<sourceCode, lastCall, iterators>>

----------------------------------------------------------------------------
(* JavaScript values *)

Undefined == [t |-> "undefined"]
Null == [t |-> "null"]
Num(n) == [t |-> "number", n |-> n]
Bool(b) == [t |-> "boolean", b |-> b]
Str(s) == [t |-> "string", s |-> s]

\* ToBoolean, as used by the || operator
Truthy(v) ==
    CASE v.t = "undefined" -> FALSE
      [] v.t = "null" -> FALSE
      [] v.t = "number" -> v.n # 0
      [] v.t = "boolean" -> v.b
      [] v.t = "string" -> v.s # ""
      [] OTHER -> TRUE

\* a || b
Or(a, b) == IF Truthy(a) THEN a ELSE b

\* obj.key: undefined when the object has no such property
Get(obj, key) == IF key \in DOMAIN obj THEN obj[key] ELSE Undefined

\* {}
EmptyObject == [t |-> "object"]

----------------------------------------------------------------------------
(* Bounds and input domains *)

\* largest line / column an error of the external parser carries
MaxPos == 2
\* longest text given to createSourceCode
MaxLen == 3
\* most iterators of traverse() alive at once
MaxIters == 2

LF == "LF"
CR == "CR"
LS == "U+2028"
PS == "U+2029"
BOM == "U+FEFF"
LineBreakChars == {LF, CR, LS, PS}
Chars == {"a"} \cup LineBreakChars

RECURSIVE TextsOfLen(_)
TextsOfLen(n) ==
    IF n = 0 THEN {<<>>}
    ELSE {Append(t, c) : t \in TextsOfLen(n - 1), c \in Chars}

Texts == UNION {TextsOfLen(n) : n \in 0..MaxLen}

\* file bodies given to parse, which hands the body on without reading it
Bodies == {<<>>, <<"a">>, <<"a", LF, "a">>}

\* languageOptions as documented in README.md, every option optional
Years == {Undefined, Num(2011), Num(2020), Num(2025)}
StrictBigInts == {Undefined, Bool(TRUE), Bool(FALSE)}
Modes == {Undefined, Str("jsonv"), Str("json5"), Str("json")}

LanguageOptions ==
    [t : {"object"}, year : Years, strictBigInt : StrictBigInts, mode : Modes]

Contexts ==
    {[languageOptions |-> Undefined]} \cup
    {[languageOptions |-> o] : o \in LanguageOptions}

\* what the external parser can do on a call: return a value, or throw
ErrorNames == {"LexError", "SyntaxError", "ReferenceError"}
Messages == {"unexpected token", "undefined reference"}
Positions == {Undefined} \cup {Num(n) : n \in 1..MaxPos}

ParserErrors ==
    [t : {"error"}, name : ErrorNames, message : {Str(m) : m \in Messages},
     line : Positions, column : Positions]

ParsedValues == {[t |-> "value", id |-> i] : i \in 1..2}

Outcomes ==
    {[kind |-> "return", value |-> v] : v \in ParsedValues} \cup
    {[kind |-> "throw", value |-> e] : e \in ParserErrors \cup {Null, Undefined}}

----------------------------------------------------------------------------
(* jsonvLanguage: the language definition *)

lineStart == 1
columnStart == 1

defaultParserOptions ==
    [year |-> Num(2025), strictBigInt |-> Bool(FALSE), mode |-> Str("jsonv")]

\* const options = context.languageOptions || {}
OptionsOf(ctx) == Or(Get(ctx, "languageOptions"), EmptyObject)

\* faulty variant: the configured year is ignored
YearOption_Ignored(options) == Num(2025)

\* the year handed to parseWithOptions: options.year || 2025
YearOption(options) == Or(Get(options, "year"), Num(2025))

\* options.strictBigInt !== undefined ? options.strictBigInt : false
StrictBigIntOption(options) ==
    IF Get(options, "strictBigInt") # Undefined
    THEN Get(options, "strictBigInt")
    ELSE Bool(FALSE)

\* the mode handed to parseWithOptions: the literal "jsonv"
ModeOption(options) == Str("jsonv")

\* the second argument of the parseWithOptions call
ParserOptions(options) ==
    [year |-> YearOption(options),
     strictBigInt |-> StrictBigIntOption(options),
     mode |-> ModeOption(options),
     preserveComments |-> Bool(TRUE),
     tolerant |-> Bool(FALSE)]

\* the arguments of the parseWithOptions call parse makes
ParserInput(body, ctx) ==
    [text |-> body, options |-> ParserOptions(OptionsOf(ctx))]

\* the calls of parseWithOptions one parse call makes, with what each did
ParserCallsOf(body, ctx, outcome) ==
    <<[input |-> ParserInput(body, ctx), outcome |-> outcome]>>

\* the minimal ESTree-compatible AST of the success result
ProgramAst ==
    [type |-> "Program", body |-> <<>>, sourceType |-> "module",
     comments |-> <<>>, tokens |-> <<>>]

\* faulty variant: the parsed value is dropped from the result
SuccessResult_NoValue(result) ==
    [ok |-> TRUE, ast |-> ProgramAst, jsonvValue |-> Undefined]

\* the object returned when parseWithOptions returns
SuccessResult(result) ==
    [ok |-> TRUE, ast |-> ProgramAst, jsonvValue |-> result]

\* faulty variant: a fixed message instead of the error's own
Diagnostic_FixedMessage(error) ==
    [message |-> Str("Parse error"),
     line |-> Or(Get(error, "line"), Num(1)),
     column |-> Or(Get(error, "column"), Num(1))]

\* faulty variant: no fallback position
Diagnostic_NoFallback(error) ==
    [message |-> Get(error, "message"),
     line |-> Get(error, "line"),
     column |-> Get(error, "column")]

\* the diagnostic built in the catch block
Diagnostic(error) ==
    [message |-> Get(error, "message"),
     line |-> Or(Get(error, "line"), Num(1)),
     column |-> Or(Get(error, "column"), Num(1))]

\* the object returned by the catch block
ErrorResult(error) == [ok |-> FALSE, errors |-> <<Diagnostic(error)>>]

\* a property read on null or undefined raises a TypeError
TypeError == [t |-> "error", name |-> "TypeError"]
NotCalled == [t |-> "none"]
Returned(v) == [t |-> "return", value |-> v]
Raised(e) == [t |-> "raise", error |-> e]

\* the catch block: error.message is read first, and raises when the thrown
\* value is null or undefined; nothing catches that
CatchBlock(error) ==
    IF error.t \in {"null", "undefined"}
    THEN Raised(TypeError)
    ELSE Returned(ErrorResult(error))

\* faulty variant: a result once returned is kept and returned again
ParseCompletion_Cached(body, ctx, outcome) ==
    IF parseResult.t = "return" THEN parseResult
    ELSE IF outcome.kind = "return"
    THEN Returned(SuccessResult(outcome.value))
    ELSE CatchBlock(outcome.value)

\* what parse(file, context) does, given what parseWithOptions does
ParseCompletion(body, ctx, outcome) ==
    IF outcome.kind = "return"
    THEN Returned(SuccessResult(outcome.value))
    ELSE CatchBlock(outcome.value)

\* parse(file, context) with file.body = body
ParseStep(body, ctx, outcome) ==
    /\ file' = [body |-> body]
    /\ context' = ctx
    /\ parserCalls' = ParserCallsOf(body, ctx, outcome)
    /\ parseResult' = ParseCompletion(body, ctx, outcome)

\* one lint run: ESLint calls parse on the file under the configured context
Parse ==
    \E outcome \in Outcomes :
        /\ ParseStep(file.body, context, outcome)
        /\ UNCHANGED <<detVars, sourceVars>>

Init ==
    /\ file \in {[body |-> b] : b \in Bodies}
    /\ context \in Contexts
    /\ parserCalls = <<>>
    /\ parseResult = NotCalled
    /\ oracle = {}
    /\ history = {}
    /\ sourceCode = NotCalled
    /\ lastCall = NotCalled
    /\ iterators = <<>>

Next == Parse

Spec == Init /\ [][Next]_vars

----------------------------------------------------------------------------
(* createSourceCode and the source code object *)

\* faulty variant: \r\n is not tried before the single characters
MatchEnd_NoCRLF(S, q) ==
    IF S[q] \in {CR, LF, LS, PS} THEN q + 1 ELSE 0

\* where the match of /\r\n|[\r\n\u2028\u2029]/ at index q of S ends (the
\* index after its last character), or 0 when there is no match at q
MatchEnd(S, q) ==
    IF S[q] = CR /\ q < Len(S) /\ S[q + 1] = LF THEN q + 2
    ELSE IF S[q] \in {CR, LF, LS, PS} THEN q + 1
    ELSE 0

\* String.prototype.split with that separator: p is the start of the current
\* piece, q the index the separator is tried at
RECURSIVE SplitFrom(_, _, _, _)
SplitFrom(S, p, q, pieces) ==
    IF q > Len(S) THEN Append(pieces, SubSeq(S, p, Len(S)))
    ELSE LET e == MatchEnd(S, q)
         IN  IF e = 0 THEN SplitFrom(S, p, q + 1, pieces)
             ELSE SplitFrom(S, e, e, Append(pieces, SubSeq(S, p, q - 1)))

\* text.split(/\r\n|[\r\n\u2028\u2029]/g)
SplitLines(text) ==
    IF Len(text) = 0 THEN <<text>> ELSE SplitFrom(text, 1, 1, <<>>)

\* node.loc || { start: { line: 1, column: 0 }, end: { line: 1, column: 0 } }
GetLocOf(node) ==
    Or(Get(node, "loc"),
       [t |-> "object",
        start |-> [line |-> 1, column |-> 0],
        end |-> [line |-> 1, column |-> 0]])

\* faulty variant: the exit step comes first
TraverseSteps_ExitFirst(ast) ==
    <<[kind |-> 1, target |-> ast, phase |-> 2, args |-> <<ast>>],
      [kind |-> 1, target |-> ast, phase |-> 1, args |-> <<ast>>]>>

\* the array traverse() iterates over
TraverseSteps(ast) ==
    <<[kind |-> 1, target |-> ast, phase |-> 1, args |-> <<ast>>],
      [kind |-> 1, target |-> ast, phase |-> 2, args |-> <<ast>>]>>

\* the object createSourceCode returns (its methods are the actions below);
\* file.body is a string, as for every file of fileType "text", so that
\* text = file.body; getRange and getText read no state but text and node
SourceCodeOf(f, result) ==
    [t |-> "object",
     text |-> f.body,
     ast |-> Get(result, "ast"),
     lines |-> SplitLines(f.body),
     hasBOM |-> (Len(f.body) > 0 /\ f.body[1] = BOM)]

\* createSourceCode(file, parseResult, context), called by the linter with
\* the result parse returned
CreateSourceCode ==
    /\ parseResult.t = "return"
    /\ sourceCode' = SourceCodeOf(file, parseResult.value)
    /\ lastCall' = NotCalled
    /\ iterators' = <<>>
    /\ UNCHANGED <<parseVars, detVars>>

SourceCodeCreated == sourceCode # NotCalled

\* sourceCode.getLines()
GetLines ==
    /\ SourceCodeCreated
    /\ lastCall' = [t |-> "getLines", result |-> SplitLines(sourceCode.text)]
    /\ UNCHANGED <<parseVars, detVars, sourceCode, iterators>>

\* the nodes the linter asks the location of: the root ast, which has no
\* loc, and nodes that carry one
NodesWithLoc ==
    {[type |-> "Program",
      loc |-> [t |-> "object",
               start |-> [line |-> 1, column |-> 1],
               end |-> [line |-> n, column |-> n]]] : n \in 1..MaxPos}

\* sourceCode.getLoc(node)
GetLoc ==
    /\ SourceCodeCreated
    /\ sourceCode.ast # Undefined
    /\ \E node \in {sourceCode.ast} \cup NodesWithLoc :
           lastCall' = [t |-> "getLoc", node |-> node, result |-> GetLocOf(node)]
    /\ UNCHANGED <<parseVars, detVars, sourceCode, iterators>>

\* sourceCode.traverse(): a new iterator over a new array, nothing read yet
Traverse ==
    /\ SourceCodeCreated
    /\ Len(iterators) < MaxIters
    /\ iterators' =
           Append(iterators, [steps |-> TraverseSteps(sourceCode.ast), read |-> <<>>])
    /\ UNCHANGED <<parseVars, detVars, sourceCode, lastCall>>

\* next() on one of the iterators traverse() returned
IteratorNext ==
    /\ \E i \in DOMAIN iterators :
           /\ Len(iterators[i].read) < Len(iterators[i].steps)
           /\ iterators' =
                  [iterators EXCEPT ![i].read =
                      Append(@, iterators[i].steps[Len(@) + 1])]
    /\ UNCHANGED <<parseVars, detVars, sourceCode, lastCall>>

\* what the external parser does in the lint runs of SpecSource
SourceOutcomes ==
    {[kind |-> "return", value |-> [t |-> "value", id |-> 1]],
     [kind |-> "throw",
      value |-> [t |-> "error", name |-> "SyntaxError",
                 message |-> Str("unexpected token"),
                 line |-> Num(MaxPos), column |-> Undefined]]}

\* the parse call that starts a lint run
ParseFile ==
    /\ parseResult = NotCalled
    /\ \E outcome \in SourceOutcomes : ParseStep(file.body, context, outcome)
    /\ UNCHANGED <<detVars, sourceVars>>

InitSource ==
    /\ file \in {[body |-> t] : t \in Texts}
    /\ context = [languageOptions |-> Undefined]
    /\ parserCalls = <<>>
    /\ parseResult = NotCalled
    /\ oracle = {}
    /\ history = {}
    /\ sourceCode = NotCalled
    /\ lastCall = NotCalled
    /\ iterators = <<>>

NextSource ==
    \/ ParseFile
    \/ CreateSourceCode
    \/ GetLines
    \/ GetLoc
    \/ Traverse
    \/ IteratorNext

SpecSource == InitSource /\ [][NextSource]_vars

----------------------------------------------------------------------------
(* Repeated calls against a deterministic external parser *)

DetBodies == {<<>>, <<"a">>}

DetContexts ==
    {[languageOptions |-> Undefined],
     [languageOptions |->
         [t |-> "object", year |-> Num(2011), strictBigInt |-> Undefined,
          mode |-> Undefined]],
     [languageOptions |->
         [t |-> "object", year |-> Undefined, strictBigInt |-> Undefined,
          mode |-> Str("json")]]}

DetOutcomes ==
    {[kind |-> "return", value |-> [t |-> "value", id |-> 1]],
     [kind |-> "throw",
      value |-> [t |-> "error", name |-> "LexError",
                 message |-> Str("unexpected token"),
                 line |-> Num(1), column |-> Undefined]],
     [kind |-> "throw", value |-> Undefined]}

\* the external parser is deterministic: called again with the same
\* arguments it does what it did before
OracleAllows(calls) ==
    \A i \in DOMAIN calls : \A seen \in oracle :
        seen.input = calls[i].input => seen.outcome = calls[i].outcome

\* parse(file, context) on any file and context, recorded with its input
ParseAny ==
    \E body \in DetBodies, ctx \in DetContexts, outcome \in DetOutcomes :
        /\ ParseStep(body, ctx, outcome)
        /\ OracleAllows(parserCalls')
        /\ oracle' = oracle \cup {parserCalls'[i] : i \in DOMAIN parserCalls'}
        /\ history' = history \cup
               {[body |-> body, context |-> ctx, result |-> parseResult']}
        /\ UNCHANGED sourceVars

NextDet ==
    \/ ParseAny
    \/ CreateSourceCode

SpecDet == Init /\ [][NextDet]_vars

----------------------------------------------------------------------------
(* Properties of parse, checked under Spec *)

ParseCalled == parseResult # NotCalled
ParseReturned == parseResult.t = "return"
\* what the external parser did in the last parse call
ParserOutcome == parserCalls[1].outcome
ParserThrewError ==
    /\ ParseCalled
    /\ Len(parserCalls) >= 1
    /\ ParserOutcome.kind = "throw"
    /\ ParserOutcome.value.t = "error"
LanguageOptionsGiven == context.languageOptions # Undefined
OptionGiven(key) ==
    /\ LanguageOptionsGiven
    /\ context.languageOptions[key] # Undefined

\* C1: whenever parseWithOptions raises an error (lex, syntax or reference),
\* parse returns a result with ok = false and exactly one diagnostic, whose
\* message is the raised error's message, and the result has no ast and no
\* jsonvValue.
C1_ErrorBecomesOneDiagnostic ==
    ParserThrewError =>
        /\ ParseReturned
        /\ parseResult.value.ok = FALSE
        /\ "errors" \in DOMAIN parseResult.value
        /\ Len(parseResult.value.errors) = 1
        /\ parseResult.value.errors[1].message = ParserOutcome.value.message
        /\ "ast" \notin DOMAIN parseResult.value
        /\ "jsonvValue" \notin DOMAIN parseResult.value

C1_Witness ==
    /\ ParserThrewError
    /\ ParserOutcome.value.name = "ReferenceError"
    /\ ParseReturned
    /\ parseResult.value.ok = FALSE
    /\ parseResult.value.errors[1].message = Str("undefined reference")

IsPosition(v) == v.t = "number" /\ v.n >= 1

\* C2: every diagnostic parse returns has an integer line >= 1 and an integer
\* column >= 1; each is the raised error's line / column when the error
\* carries one, and 1 when it carries none.
C2_DiagnosticPositions ==
    (ParseCalled /\ ParseReturned /\ "errors" \in DOMAIN parseResult.value) =>
        \A i \in DOMAIN parseResult.value.errors :
            LET d == parseResult.value.errors[i]
                e == ParserOutcome.value
            IN  /\ IsPosition(d.line)
                /\ IsPosition(d.column)
                /\ d.line = (IF e.line # Undefined THEN e.line ELSE Num(1))
                /\ d.column = (IF e.column # Undefined THEN e.column ELSE Num(1))

C2_Witness ==
    /\ ParserThrewError
    /\ ParseReturned
    /\ ParserOutcome.value.line = Undefined
    /\ ParserOutcome.value.column = Num(2)
    /\ parseResult.value.errors[1].line = Num(1)
    /\ parseResult.value.errors[1].column = Num(2)

\* C3: the mode set in languageOptions.mode is the mode parse hands to the
\* external parser, and the mode is "jsonv" when none is set.
C3_ModeIsPassedOn ==
    ParseCalled =>
        \A i \in DOMAIN parserCalls :
            parserCalls[i].input.options.mode =
                (IF OptionGiven("mode") THEN context.languageOptions.mode
                 ELSE Str("jsonv"))

C5_ParseNeverRaises ==
    ParseCalled =>
        /\ ParseReturned
        /\ parseResult.value.ok \in BOOLEAN

\* C6: parse returns ok = true exactly when the external parser returns; then
\* jsonvValue is the value the parser returned, the result has no errors
\* field, and ast is an empty Program node of sourceType "module".
C6_SuccessResult ==
    ParseCalled =>
        /\ (ParseReturned /\ parseResult.value.ok = TRUE)
               <=> (ParserOutcome.kind = "return")
        /\ ParserOutcome.kind = "return" =>
               /\ parseResult.value.jsonvValue = ParserOutcome.value
               /\ "errors" \notin DOMAIN parseResult.value
               /\ parseResult.value.ast.type = "Program"
               /\ parseResult.value.ast.sourceType = "module"
               /\ parseResult.value.ast.body = <<>>
               /\ parseResult.value.ast.comments = <<>>
               /\ parseResult.value.ast.tokens = <<>>

C6_Witness ==
    /\ ParseCalled
    /\ ParserOutcome.kind = "return"
    /\ ParserOutcome.value.id = 2
    /\ file.body = <<"a">>
    /\ ParseReturned
    /\ parseResult.value.ok = TRUE
    /\ parseResult.value.jsonvValue.id = 2

----------------------------------------------------------------------------
(* Determinism of parse, checked under SpecDet *)

\* C7: parse keeps no state between calls: after any sequence of earlier
\* parse and createSourceCode calls, parse on the same file body and the same
\* languageOptions returns a structurally identical result, the external
\* parser being deterministic.
C7_ParseDeterministic ==
    \A h1 \in history : \A h2 \in history :
        (h1.body = h2.body /\ h1.context = h2.context) => h1.result = h2.result

C7_Witness ==
    /\ Cardinality(history) >= 3
    /\ Cardinality({h \in history : h.result.t = "return"}) >= 2
    /\ SourceCodeCreated
    /\ \E h \in history :
           /\ h.body = file.body
           /\ h.context = context
           /\ h.result = parseResult
           /\ h.result.t = "return"
           /\ h.result.value.ok = FALSE
    /\ \E seen \in oracle :
           /\ seen.input # parserCalls[1].input
           /\ seen.input.text = file.body

----------------------------------------------------------------------------
(* Properties of the source code object, checked under SpecSource *)

\* the indices of a text at which a line break starts: every line-break
\* character, but for the \n that completes a \r\n
LineBreakStarts(text) ==
    {i \in 1..Len(text) :
        /\ text[i] \in LineBreakChars
        /\ ~(text[i] = LF /\ i > 1 /\ text[i - 1] = CR)}

\* the line breaks of a text, in order
LineBreaksOf(text) ==
    LET starts == LineBreakStarts(text)
        nth(k) == CHOOSE i \in starts : Cardinality({j \in starts : j < i}) = k - 1
    IN  [k \in 1..Cardinality(starts) |->
            IF text[nth(k)] = CR /\ nth(k) < Len(text) /\ text[nth(k) + 1] = LF
            THEN <<CR, LF>>
            ELSE <<text[nth(k)]>>]

\* lines[1] break[1] lines[2] ... break[n] lines[n + 1]
RECURSIVE Rejoin(_, _)
Rejoin(lines, breaks) ==
    IF Len(breaks) = 0 THEN lines[1]
    ELSE lines[1] \o breaks[1] \o Rejoin(Tail(lines), Tail(breaks))

\* C8: line and column numbering start at 1: every position handed to the
\* linter, a parse diagnostic's line / column or a start / end position
\* returned by getLoc (its default included), has line >= lineStart = 1 and
\* column >= columnStart = 1.
C8_PositionsStartAtOne ==
    /\ lineStart = 1
    /\ columnStart = 1
    /\ (parseResult.t = "return" /\ "errors" \in DOMAIN parseResult.value) =>
           \A i \in DOMAIN parseResult.value.errors :
               /\ parseResult.value.errors[i].line.n >= lineStart
               /\ parseResult.value.errors[i].column.n >= columnStart
    /\ lastCall.t = "getLoc" =>
           /\ lastCall.result.start.line >= lineStart
           /\ lastCall.result.start.column >= columnStart
           /\ lastCall.result.end.line >= lineStart
           /\ lastCall.result.end.column >= columnStart

\* C9: lines, and the equal result of getLines(), is the text split at each
\* line break (\n, \r\n, \r, U+2028, U+2029; \r\n is one break): there is one
\* more line than there are line breaks, no line contains a line-break
\* character, and the lines joined by the removed breaks give back the text.
C9_LinesSplitAtLineBreaks ==
    SourceCodeCreated =>
        /\ Len(sourceCode.lines) = Cardinality(LineBreakStarts(sourceCode.text)) + 1
        /\ \A i \in DOMAIN sourceCode.lines :
               \A j \in DOMAIN sourceCode.lines[i] :
                   sourceCode.lines[i][j] \notin LineBreakChars
        /\ Rejoin(sourceCode.lines, LineBreaksOf(sourceCode.text)) = sourceCode.text
        /\ lastCall.t = "getLines" => lastCall.result = sourceCode.lines

C9_Witness ==
    /\ SourceCodeCreated
    /\ sourceCode.text = <<"a", CR, LF>>
    /\ sourceCode.lines = <<(<<"a">>), (<<>>)>>
    /\ lastCall.t = "getLines"
    /\ Len(lastCall.result) = 2

\* the ast of the parse result the source code object was created from
ParseResultAst ==
    IF "ast" \in DOMAIN parseResult.value THEN parseResult.value.ast ELSE Undefined

IteratorAsSpecified(it) ==
    /\ Len(it.steps) = 2
    /\ \A j \in 1..2 :
           /\ it.steps[j].kind = 1
           /\ it.steps[j].phase = j
           /\ it.steps[j].target = ParseResultAst
           /\ it.steps[j].args = <<ParseResultAst>>
    /\ Len(it.read) <= 2
    /\ \A j \in DOMAIN it.read : it.read[j] = it.steps[j]
    /\ \A j \in DOMAIN it.read : \A k \in DOMAIN it.read :
           (it.read[j].phase = 1 /\ it.read[k].phase = 2) => j < k

\* a step that adds an iterator adds one nothing was read from, and leaves
\* the iterators returned before as they were
TraverseIsFresh ==
    Len(iterators') = Len(iterators) + 1 =>
        /\ iterators'[Len(iterators')].read = <<>>
        /\ \A i \in DOMAIN iterators : iterators'[i] = iterators[i]

\* C10: every traverse() call returns a fresh sequence of exactly two visit
\* steps (kind 1) on the root ast of the parse result: the enter step
\* (phase 1), then the exit step (phase 2), each with target = ast and
\* args = [ast]; exit never precedes enter and no other node is visited.
C10_TraverseEnterThenExit ==
    /\ [](\A i \in DOMAIN iterators : IteratorAsSpecified(iterators[i]))
    /\ [][TraverseIsFresh]_vars

C10_Witness ==
    /\ Len(iterators) = 2
    /\ iterators[1].read = iterators[1].steps
    /\ iterators[2].read = <<>>
    /\ ParseResultAst = ProgramAst
    /\ iterators[1].read[2].target = ProgramAst

====
